---- MODULE Spec2Model ----
(***************************************************************************)
(* Model of the Monkey lexer (src/src/lexer.rs, src/src/token.rs).         *)
(*                                                                         *)
(* A &str is modelled as a sequence of characters; every character is a    *)
(* string ("a", ";", ...).  Characters whose UTF-8 encoding takes more     *)
(* than one byte are named by their code point ("U+00E9").  The lexer      *)
(* mixes byte offsets (str::len, str slicing) with character offsets       *)
(* (chars().nth), so the model keeps both.                                 *)
(***************************************************************************)
EXTENDS Integers, Sequences, FiniteSets, TLC

\* ------------------------------------------------------------ bounds
MaxLen == 3
MaxPunctLen == 2
MaxWords == 2
MaxCalls == 3

\* ------------------------------------------------------------ characters
\* Option<char>::None / Option<Token>::None is the empty option.
None == "None"

Lower == {"a","b","c","d","e","f","g","h","i","j","k","l","m",
          "n","o","p","q","r","s","t","u","v","w","x","y","z"}
Upper == {"A","B","C","D","E","F","G","H","I","J","K","L","M",
          "N","O","P","Q","R","S","T","U","V","W","X","Y","Z"}
\* U+00E9 (e with acute accent): alphabetic, two bytes in UTF-8.
\* U+00A7 (section sign): neither alphabetic nor digit nor whitespace, two bytes.
TwoByteChars == {"U+00E9", "U+00A7"}
Digits == {"0","1","2","3","4","5","6","7","8","9"}
Punctuation == {";","(",")","{","}",",","+","-","*","/","<",">"}

\* char::len_utf8
len_utf8(c) == IF c \in TwoByteChars THEN 2 ELSE 1

\* char::is_alphabetic
is_alphabetic(c) == c \in Lower \cup Upper \cup {"U+00E9"}

\* char::is_digit(10)
is_digit(c) == c \in Digits

\* char::is_ascii_whitespace: space, tab, line feed, form feed, carriage return
is_ascii_whitespace(c) == c \in {" ", "\t", "\n", "\f", "\r"}

\* char::to_digit(10) on a decimal digit
to_digit(c) ==
  CASE c = "0" -> 0 [] c = "1" -> 1 [] c = "2" -> 2 [] c = "3" -> 3
    [] c = "4" -> 4 [] c = "5" -> 5 [] c = "6" -> 6 [] c = "7" -> 7
    [] c = "8" -> 8 [] c = "9" -> 9

\* ------------------------------------------------------------ &str
\* str::len: the length in BYTES
RECURSIVE len(_)
len(s) == IF s = <<>> THEN 0 ELSE len_utf8(Head(s)) + len(Tail(s))

\* str::chars().nth(n): the n-th CHARACTER (0-based), if any
nth(s, n) == IF n < Len(s) THEN s[n + 1] ELSE None

\* byte offset of the character with (0-based) index i
byte_offset(s, i) == len(SubSeq(s, 1, i))

\* str::is_char_boundary
is_char_boundary(s, b) == \E i \in 0..Len(s) : byte_offset(s, i) = b

\* &s[start..end]: byte range; panics unless start <= end <= len and both
\* ends are character boundaries
slice(s, start, end) ==
  IF start <= end /\ is_char_boundary(s, start) /\ is_char_boundary(s, end)
  THEN LET i == CHOOSE i \in 0..Len(s) : byte_offset(s, i) = start
           j == CHOOSE j \in 0..Len(s) : byte_offset(s, j) = end
       IN  [panic |-> FALSE, val |-> SubSeq(s, i + 1, j)]
  ELSE [panic |-> TRUE, val |-> <<>>]

\* i32::MAX
I32Max == 2147483647

\* i32::from_str on the digits of a literal without '-': the value is built
\* digit by digit with checked_mul(10) and checked_add(digit)
RECURSIVE from_digits_pos(_, _)
from_digits_pos(s, acc) ==
  IF s = <<>> THEN [panic |-> FALSE, val |-> acc]
  ELSE IF acc > I32Max \div 10 THEN [panic |-> TRUE, val |-> 0]
  ELSE IF acc * 10 > I32Max - to_digit(Head(s)) THEN [panic |-> TRUE, val |-> 0]
  ELSE from_digits_pos(Tail(s), acc * 10 + to_digit(Head(s)))

\* i32::from_str on the digits of a literal with '-': checked_mul(10) and
\* checked_sub(digit)
RECURSIVE from_digits_neg(_, _)
from_digits_neg(s, acc) ==
  IF s = <<>> THEN [panic |-> FALSE, val |-> acc]
  ELSE IF acc < 0 - (I32Max \div 10) THEN [panic |-> TRUE, val |-> 0]
  ELSE IF acc * 10 < (0 - I32Max - 1) + to_digit(Head(s))
       THEN [panic |-> TRUE, val |-> 0]
  ELSE from_digits_neg(Tail(s), acc * 10 - to_digit(Head(s)))

\* str::parse::<i32>().unwrap(): optional sign, then one or more digits,
\* value within i32; anything else is Err and unwrap panics
parse_i32(s) ==
  LET signed == s # <<>> /\ s[1] \in {"+", "-"}
      body == IF signed THEN Tail(s) ELSE s
      digitsOnly == body # <<>> /\ \A k \in 1..Len(body) : is_digit(body[k])
  IN  IF ~digitsOnly THEN [panic |-> TRUE, val |-> 0]
      ELSE IF signed /\ s[1] = "-" THEN from_digits_neg(body, 0)
      ELSE from_digits_pos(body, 0)

\* ------------------------------------------------------------ tokens
\* TokenType: unit variants, IDENT(String), INT(i32)
TokenType(k) == [kind |-> k]
IDENT(s) == [kind |-> "IDENT", name |-> s]
INT(n) == [kind |-> "INT", value |-> n]

\* Token::new
Token_new(t) == [t_type |-> t]

\* ------------------------------------------------------------ Lexer
\* struct Lexer: the cursor fields (input is held apart: it never changes)
Lexer(p, rp, cc) == [position |-> p, read_position |-> rp, current_character |-> cc]

\* Lexer::is_end_of_file: read_position against the BYTE length
is_end_of_file(input, l) == l.read_position > len(input)

\* read_char loading the character at the old position
read_char_stale(input, l) ==
  Lexer(l.read_position,
        l.read_position + 1,
        IF is_end_of_file(input, l) THEN None ELSE nth(input, l.position))

\* read_char adding 2 to read_position
read_char_double(input, l) ==
  Lexer(l.read_position,
        l.read_position + 2,
        IF is_end_of_file(input, l) THEN None ELSE nth(input, l.read_position))

\* read_char going back to the start at the end of the input
read_char_rewind(input, l) ==
  IF is_end_of_file(input, l) THEN Lexer(0, 1, None)
  ELSE Lexer(l.read_position, l.read_position + 1, nth(input, l.read_position))

\* Lexer::read_char
read_char(input, l) ==
  Lexer(l.read_position,
        l.read_position + 1,
        IF is_end_of_file(input, l) THEN None ELSE nth(input, l.read_position))

\* Lexer::peak_char
peak_char(input, l) ==
  IF is_end_of_file(input, l) THEN None ELSE nth(input, l.read_position)

\* Lexer::new
new(input) == read_char(input, Lexer(0, 0, None))

\* the loop of Lexer::read_identifier; panic is the unwrap of a None
\* current_character
RECURSIVE read_identifier_loop(_, _)
read_identifier_loop(input, l) ==
  IF is_end_of_file(input, l) THEN [l |-> l, panic |-> FALSE]
  ELSE IF l.current_character = None THEN [l |-> l, panic |-> TRUE]
  ELSE IF ~is_alphabetic(l.current_character)
          \/ is_ascii_whitespace(l.current_character)
       THEN [l |-> l, panic |-> FALSE]
       ELSE read_identifier_loop(input, read_char(input, l))

\* Lexer::read_identifier: the loop, then &input[position..self.position]
read_identifier(input, l) ==
  LET r == read_identifier_loop(input, l)
      s == slice(input, l.position, r.l.position)
  IN  IF r.panic THEN [l |-> r.l, panic |-> TRUE, val |-> <<>>]
      ELSE [l |-> r.l, panic |-> s.panic, val |-> s.val]

\* the loop of Lexer::read_digit; it has no end-of-file test
RECURSIVE read_digit_loop(_, _)
read_digit_loop(input, l) ==
  IF l.current_character = None THEN [l |-> l, panic |-> TRUE]
  ELSE IF ~is_digit(l.current_character) THEN [l |-> l, panic |-> FALSE]
       ELSE read_digit_loop(input, read_char(input, l))

\* Lexer::read_digit: the loop, then input[position..self.position].parse().unwrap()
read_digit(input, l) ==
  LET r == read_digit_loop(input, l)
      s == slice(input, l.position, r.l.position)
      v == parse_i32(s.val)
  IN  IF r.panic \/ s.panic THEN [l |-> r.l, panic |-> TRUE, val |-> 0]
      ELSE [l |-> r.l, panic |-> v.panic, val |-> v.val]

\* Lexer::lookup_identifier
lookup_identifier(ident) ==
  CASE ident = <<"f","n">> -> TokenType("FUNCTION")
    [] ident = <<"l","e","t">> -> TokenType("LET")
    [] ident = <<"i","f">> -> TokenType("IF")
    [] ident = <<"e","l","s","e">> -> TokenType("ELSE")
    [] ident = <<"r","e","t","u","r","n">> -> TokenType("RETURN")
    [] ident = <<"t","r","u","e">> -> TokenType("TRUE")
    [] ident = <<"f","a","l","s","e">> -> TokenType("FALSE")
    [] OTHER -> IDENT(ident)

\* Lexer::skip_whitespace
RECURSIVE skip_whitespace(_, _)
skip_whitespace(input, l) ==
  IF l.current_character = None \/ ~is_ascii_whitespace(l.current_character)
  THEN l
  ELSE skip_whitespace(input, read_char(input, l))

\* the '=' arm without the second read_char
assign_arm_no_advance(input, l) ==
  IF peak_char(input, l) = None
  THEN [l |-> l, panic |-> FALSE, token |-> Token_new(TokenType("ILLEGAL"))]
  ELSE IF peak_char(input, l) = "="
       THEN [l |-> l, panic |-> FALSE, token |-> Token_new(TokenType("EQ"))]
       ELSE [l |-> l, panic |-> FALSE, token |-> Token_new(TokenType("ASSIGN"))]

\* next_token, the '=' arm
assign_arm(input, l) ==
  IF peak_char(input, l) = None
  THEN [l |-> l, panic |-> FALSE, token |-> Token_new(TokenType("ILLEGAL"))]
  ELSE IF peak_char(input, l) = "="
       THEN [l |-> read_char(input, l), panic |-> FALSE,
             token |-> Token_new(TokenType("EQ"))]
       ELSE [l |-> l, panic |-> FALSE, token |-> Token_new(TokenType("ASSIGN"))]

\* the '!' arm leaving the '=' of "!=" unconsumed
bang_arm_no_advance(input, l) ==
  IF peak_char(input, l) = None
  THEN [l |-> l, panic |-> FALSE, token |-> Token_new(TokenType("ILLEGAL"))]
  ELSE IF peak_char(input, l) = "="
       THEN [l |-> l, panic |-> FALSE, token |-> Token_new(TokenType("NOTEQ"))]
       ELSE [l |-> l, panic |-> FALSE, token |-> Token_new(TokenType("BANG"))]

\* next_token, the '!' arm
bang_arm(input, l) ==
  IF peak_char(input, l) = None
  THEN [l |-> l, panic |-> FALSE, token |-> Token_new(TokenType("ILLEGAL"))]
  ELSE IF peak_char(input, l) = "="
       THEN [l |-> read_char(input, l), panic |-> FALSE,
             token |-> Token_new(TokenType("NOTEQ"))]
       ELSE [l |-> l, panic |-> FALSE, token |-> Token_new(TokenType("BANG"))]

\* the single-character arms with '<' and '>' exchanged
single_arm_swapped(c) ==
  CASE c = "<" -> TokenType("GT")
    [] c = ">" -> TokenType("LT")
    [] c = ";" -> TokenType("SEMICOLON")
    [] c = "(" -> TokenType("LPAREN")
    [] c = ")" -> TokenType("RPAREN")
    [] c = "{" -> TokenType("LBRACE")
    [] c = "}" -> TokenType("RBRACE")
    [] c = "," -> TokenType("COMMA")
    [] c = "+" -> TokenType("PLUS")
    [] c = "-" -> TokenType("MINUS")
    [] c = "*" -> TokenType("ASTERISK")
    [] c = "/" -> TokenType("FORWARDSLASH")

\* next_token, the single-character arms
single_arm(c) ==
  CASE c = ";" -> TokenType("SEMICOLON")
    [] c = "(" -> TokenType("LPAREN")
    [] c = ")" -> TokenType("RPAREN")
    [] c = "{" -> TokenType("LBRACE")
    [] c = "}" -> TokenType("RBRACE")
    [] c = "," -> TokenType("COMMA")
    [] c = "+" -> TokenType("PLUS")
    [] c = "-" -> TokenType("MINUS")
    [] c = "*" -> TokenType("ASTERISK")
    [] c = "/" -> TokenType("FORWARDSLASH")
    [] c = "<" -> TokenType("LT")
    [] c = ">" -> TokenType("GT")

\* next_token, the default arm (item => ...)
item_arm(input, l) ==
  IF is_alphabetic(l.current_character)
  THEN LET r == read_identifier(input, l)
       IN  [l |-> r.l, panic |-> r.panic,
            token |-> Token_new(lookup_identifier(r.val))]
  ELSE IF is_digit(l.current_character)
       THEN LET r == read_digit(input, l)
            IN  [l |-> r.l, panic |-> r.panic, token |-> Token_new(INT(r.val))]
       ELSE [l |-> l, panic |-> FALSE, token |-> Token_new(TokenType("ILLEGAL"))]

\* next_token, the match on the current character
match_arm(input, l) ==
  CASE l.current_character = "=" -> assign_arm(input, l)
    [] l.current_character = "!" -> bang_arm(input, l)
    [] l.current_character \in Punctuation ->
         [l |-> l, panic |-> FALSE,
          token |-> Token_new(single_arm(l.current_character))]
    [] OTHER -> item_arm(input, l)

\* the end of the input reached with one more read_char before None
at_end_advancing(input, l) ==
  [l |-> read_char(input, l), panic |-> FALSE, token |-> <<>>]

\* next_token at the end of the input: return None
at_end(input, l) == [l |-> l, panic |-> FALSE, token |-> <<>>]

\* next_token after the match: self.read_char(); Some(token)
after_match(input, r) ==
  [l |-> read_char(input, r.l), panic |-> FALSE, token |-> <<r.token>>]

\* Lexer::next_token.  token is the Option<Token>: <<>> is None, <<t>> is
\* Some(t); with panic the call does not return.
next_token(input, l0) ==
  LET l == skip_whitespace(input, l0)
  IN  IF l.current_character = None THEN at_end(input, l)
      ELSE LET r == match_arm(input, l)
           IN  IF r.panic THEN [l |-> r.l, panic |-> TRUE, token |-> <<>>]
               ELSE after_match(input, r)

\* read without the push of the EOF token
push_nothing(tokens) == tokens

\* read: tokens.push(Token::new(TokenType::EOF)) when next_token gave None
push_eof(tokens) == Append(tokens, Token_new(TokenType("EOF")))

\* the loop of Lexer::read
RECURSIVE read_loop(_, _, _)
read_loop(input, l, tokens) ==
  LET r == next_token(input, l)
  IN  IF r.panic THEN [l |-> r.l, panic |-> TRUE, tokens |-> tokens]
      ELSE IF r.token = <<>>
           THEN [l |-> r.l, panic |-> FALSE, tokens |-> push_eof(tokens)]
           ELSE read_loop(input, r.l, Append(tokens, r.token[1]))

\* Lexer::read
read(input, l) == read_loop(input, l, <<>>)

\* ------------------------------------------------------------ inputs
\* every string of at most n characters of S
Strings(S, n) == UNION {[1..k -> S] : k \in 0..n}

\* characters of the exhaustive inputs: one or two of every class
CoreChars == {"=", "!", ";", " ", "a", "5", "@", "U+00A7", "U+00E9"}

\* words: the keywords, their prefixes, extensions and other spellings
Words == { <<"f","n">>, <<"l","e","t">>, <<"t","r","u","e">>,
           <<"f","a","l","s","e">>, <<"i","f">>, <<"e","l","s","e">>,
           <<"r","e","t","u","r","n">>,
           <<"l","e">>, <<"l","e","t","s">>, <<"L","e","t">>, <<"I","F">>,
           <<"f","o","o","b","a","r">>, <<"U+00E9">> }

\* the words ws joined by single spaces
RECURSIVE Join(_)
Join(ws) ==
  IF Len(ws) = 1 THEN ws[1] ELSE ws[1] \o <<" ">> \o Join(Tail(ws))

WordInputs == UNION { { Join(ws) : ws \in [1..k -> Words] } : k \in 1..MaxWords }

\* "let a = 5;"  (it_should_read_chars, spec section 8)
LetStatement == <<"l","e","t"," ","a"," ","=", " ","5",";">>
\* "== !="  (it_should_lex_double_tokens)
DoubleTokens == <<"=","="," ","!","=">>
\* "fn let true false if else return"  (it_should_lex_keywords_tokens)
KeywordTokens ==
  <<"f","n"," ","l","e","t"," ","t","r","u","e"," ","f","a","l","s","e"," ",
    "i","f"," ","e","l","s","e"," ","r","e","t","u","r","n">>
\* "=+-*/!<>,;(){}"  (it_should_lex_single_tokens)
SingleTokens == <<"=","+","-","*","/","!","<",">",",",";","(",")","{","}">>
\* "12345", "-12345", "12345;", "2147483647;", "2147483648;"
Int12345 == <<"1","2","3","4","5">>
I32MaxText == <<"2","1","4","7","4","8","3","6","4","7">>
I32OverText == <<"2","1","4","7","4","8","3","6","4","8">>

FixedInputs ==
  { LetStatement, DoubleTokens, KeywordTokens, SingleTokens,
    Int12345, <<"-">> \o Int12345, Int12345 \o <<";">>,
    <<"-">> \o Int12345 \o <<" ">>,
    I32MaxText \o <<";">>, I32OverText \o <<";">>,
    <<"=","+">>, <<"!","<">>, <<"=",";","!","=">>, <<"@","+">>, <<"U+00A7","a">>, <<"U+00A7","-","5","5",";">>,
    <<"a",";">>, <<"5",")">>, <<" ","\t","\n","\r","\f">>,
    <<"i","f","\n","L","e","t","\t"," ","f","n","\r","\n">> }

Inputs ==
  Strings(CoreChars, MaxLen) \cup Strings(Punctuation, MaxPunctLen)
    \cup WordInputs \cup FixedInputs

\* ------------------------------------------------------------ state
VARIABLES
  input,              \* Lexer.input
  position,           \* Lexer.position
  read_position,      \* Lexer.read_position
  current_character,  \* Lexer.current_character
  tokens,             \* the Vec<Token> the last read() returned
  last,               \* the Option<Token> the last next_token() returned
  peeked,             \* the Option<char> the last peak_char() returned
  lastOp,             \* the method called last
  calls,              \* number of method calls since construction
  tok_start,          \* position at which the last next_token() matched
  exhausted,          \* number of the call that first signalled None, or 0
  panicked,           \* a panic unwound out of the lexer
  line                \* repl::run: the String the last read_line filled

lexer == Lexer(position, read_position, current_character)

vars == <<input, position, read_position, current_character, tokens, last,
          peeked, lastOp, calls, tok_start, exhausted, panicked, line>>

SetLexer(l) ==
  /\ position' = l.position
  /\ read_position' = l.read_position
  /\ current_character' = l.current_character

\* the state right after let mut lexer = Lexer::new(input)
Constructed ==
  /\ position = new(input).position
  /\ read_position = new(input).read_position
  /\ current_character = new(input).current_character
  /\ tokens = <<>>
  /\ last = <<>>
  /\ peeked = None
  /\ lastOp = "new"
  /\ calls = 0
  /\ tok_start = -1
  /\ exhausted = 0
  /\ panicked = FALSE
  /\ line = <<>>

\* let mut lexer = Lexer::new(input)
Init == input \in Inputs /\ Constructed

\* lexer.next_token()
NextToken ==
  /\ ~panicked
  /\ calls < MaxCalls
  /\ LET r == next_token(input, lexer)
     IN  /\ SetLexer(r.l)
         /\ panicked' = r.panic
         /\ last' = r.token
         /\ exhausted' = IF exhausted = 0 /\ ~r.panic /\ r.token = <<>>
                         THEN calls + 1 ELSE exhausted
  /\ tok_start' = skip_whitespace(input, lexer).position
  /\ lastOp' = "next_token"
  /\ calls' = calls + 1
  /\ UNCHANGED <<input, tokens, peeked, line>>

\* lexer.read()
Read ==
  /\ ~panicked
  /\ calls < MaxCalls
  /\ LET r == read(input, lexer)
     IN  /\ SetLexer(r.l)
         /\ panicked' = r.panic
         /\ tokens' = IF r.panic THEN tokens ELSE r.tokens
         /\ exhausted' = IF exhausted = 0 /\ ~r.panic THEN calls + 1 ELSE exhausted
  /\ lastOp' = "read"
  /\ calls' = calls + 1
  /\ UNCHANGED <<input, last, peeked, tok_start, line>>

\* lexer.read_char()  (private; called by it_should_read_chars)
ReadChar ==
  /\ ~panicked
  /\ calls < MaxCalls
  /\ SetLexer(read_char(input, lexer))
  /\ lastOp' = "read_char"
  /\ calls' = calls + 1
  /\ UNCHANGED <<input, tokens, last, peeked, tok_start, exhausted, panicked, line>>

\* lexer.peak_char()  (private, &self)
PeakChar ==
  /\ ~panicked
  /\ calls < MaxCalls
  /\ peeked' = peak_char(input, lexer)
  /\ lastOp' = "peak_char"
  /\ calls' = calls + 1
  /\ UNCHANGED <<input, position, read_position, current_character, tokens,
                 last, tok_start, exhausted, panicked, line>>

Next == NextToken \/ Read

Spec == Init /\ [][Next]_vars

\* the private methods too, as the tests of the module call them
MaxCursorLen == 2

InputsInternal == Strings(CoreChars, MaxCursorLen) \cup FixedInputs

InitInternal == input \in InputsInternal /\ Constructed

NextInternal == NextToken \/ Read \/ ReadChar \/ PeakChar

SpecInternal == InitInternal /\ [][NextInternal]_vars

\* ------------------------------------------------------------ repl::run
MaxLineLen == 2

UpperSeq == <<"A","B","C","D","E","F","G","H","I","J","K","L","M",
              "N","O","P","Q","R","S","T","U","V","W","X","Y","Z">>
LowerSeq == <<"a","b","c","d","e","f","g","h","i","j","k","l","m",
              "n","o","p","q","r","s","t","u","v","w","x","y","z">>

\* str::to_lowercase, character by character
to_lowercase(s) ==
  [k \in 1..Len(s) |->
     IF s[k] \in Upper
     THEN LowerSeq[CHOOSE i \in 1..Len(UpperSeq) : UpperSeq[i] = s[k]]
     ELSE s[k]]

\* what stdin().read_line can put in the String: the text of a line with its
\* terminator ("\n", or "\r\n"), or, at the end of stdin, the text left
\* without a terminator (nothing at all once stdin is used up)
ReplChars == {"q", "Q", "a", ";"}
ReplLines ==
  { body \o term : body \in Strings(ReplChars, MaxLineLen),
                   term \in {<<"\n">>, <<"\r", "\n">>, <<>>} }

\* the last read_line met the end of stdin
AtEndOfStdin == calls > 0 /\ (line = <<>> \/ line[Len(line)] # "\n")

\* the Strings the next read_line can deliver
NextLines == IF AtEndOfStdin THEN {<<>>} ELSE ReplLines

\* run() is inside its loop
InLoop == ~panicked /\ lastOp # "run_return" /\ calls < MaxCalls

\* repl::run up to the loop: no Lexer exists yet
InitRepl ==
  /\ input = <<>>
  /\ position = 0
  /\ read_position = 0
  /\ current_character = None
  /\ tokens = <<>>
  /\ last = <<>>
  /\ peeked = None
  /\ lastOp = "run"
  /\ calls = 0
  /\ tok_start = -1
  /\ exhausted = 0
  /\ panicked = FALSE
  /\ line = <<>>

\* one turn of the loop, the arm "q" => return
ReplQuit ==
  /\ InLoop
  /\ \E ln \in NextLines :
       /\ to_lowercase(ln) = <<"q">>
       /\ line' = ln
  /\ lastOp' = "run_return"
  /\ calls' = calls + 1
  /\ UNCHANGED <<input, position, read_position, current_character, tokens,
                 last, peeked, tok_start, exhausted, panicked>>

\* one turn of the loop, the arm rest => Lexer::new(rest), println!(lexer.read())
ReplPrint ==
  /\ InLoop
  /\ \E ln \in NextLines :
       /\ to_lowercase(ln) # <<"q">>
       /\ line' = ln
       /\ input' = to_lowercase(ln)
       /\ LET r == read(to_lowercase(ln), new(to_lowercase(ln)))
          IN  /\ SetLexer(r.l)
              /\ panicked' = r.panic
              /\ tokens' = IF r.panic THEN <<>> ELSE r.tokens
  /\ lastOp' = "run_print"
  /\ calls' = calls + 1
  /\ UNCHANGED <<last, peeked, tok_start, exhausted>>

\* one turn of the loop, read_line fails: expect("Could not read from stdin.")
ReplReadError ==
  /\ InLoop
  /\ panicked' = TRUE
  /\ lastOp' = "run_read_line"
  /\ calls' = calls + 1
  /\ UNCHANGED <<input, position, read_position, current_character, tokens,
                 last, peeked, tok_start, exhausted, line>>

NextRepl == ReplQuit \/ ReplPrint \/ ReplReadError

SpecRepl == InitRepl /\ [][NextRepl]_vars

\* ------------------------------------------------------------ claims
\* a token of a unit kind, and the token sequences the claims speak of
Tok(k) == Token_new(TokenType(k))
EofToken == Tok("EOF")

\* read() was the first call on a fresh Lexer
FreshRead == lastOp = "read" /\ calls = 1

\* s holds a run of digits whose value does not fit an i32
HasOverflowingRun(s) ==
  \E i \in 1..Len(s) : \E j \in i..Len(s) :
    /\ \A k \in i..j : is_digit(s[k])
    /\ from_digits_pos(SubSeq(s, i, j), 0).panic

\* C1: for every input without a digit run overflowing i32, no call of
\* next_token or read aborts: each returns (read with a token sequence).
C1_NeverAborts == panicked => HasOverflowingRun(input)

\* C2: whenever read returns, its result holds exactly one EOF token, as its
\* last element; next_token never returns a token of kind EOF.
C2_OneEofLast ==
  /\ tokens # <<>> =>
       /\ tokens[Len(tokens)] = EofToken
       /\ \A i \in 1..(Len(tokens) - 1) : tokens[i] # EofToken
  /\ (lastOp = "read" /\ ~panicked) => tokens # <<>>
  /\ last # <<EofToken>>

\* C2 witness: a read that returned several tokens before the EOF, and a
\* next_token call that returned a token.
C2_Witness ==
  /\ lastOp = "read" /\ ~panicked /\ Len(tokens) >= 3
  /\ last # <<>>

\* C3: read on a fresh Lexer over "let a = 5;" returns
\* LET, IDENT("a"), ASSIGN, INT(5), SEMICOLON, EOF.
C3_LetStatement ==
  (FreshRead /\ input = LetStatement) =>
    /\ ~panicked
    /\ tokens = << Tok("LET"), Token_new(IDENT(<<"a">>)), Tok("ASSIGN"),
                   Token_new(INT(5)), Tok("SEMICOLON"), EofToken >>

\* C4: when '=' or '!' is the last character of the input, next_token yields
\* ASSIGN for '=' and BANG for '!'; "=" gives ASSIGN, EOF and "!" gives
\* BANG, EOF.
C4_LastCharFallsBack ==
  /\ ( /\ lastOp = "next_token"
       /\ tok_start >= 0 /\ tok_start = Len(input) - 1
       /\ input[tok_start + 1] \in {"=", "!"} ) =>
       /\ ~panicked
       /\ last = IF input[tok_start + 1] = "=" THEN <<Tok("ASSIGN")>>
                                                ELSE <<Tok("BANG")>>
  /\ (FreshRead /\ input = <<"=">>) =>
       ~panicked /\ tokens = <<Tok("ASSIGN"), EofToken>>
  /\ (FreshRead /\ input = <<"!">>) =>
       ~panicked /\ tokens = <<Tok("BANG"), EofToken>>

\* s is a non-empty run of decimal digits whose value fits an i32
IsI32Literal(s) ==
  /\ s # <<>>
  /\ \A k \in 1..Len(s) : is_digit(s[k])
  /\ ~from_digits_pos(s, 0).panic

\* C5: a run of digits fitting an i32 gives INT(value), EOF; '-' followed by
\* such a run gives MINUS, INT(value), EOF.
C5_IntegerLiteral ==
  /\ (FreshRead /\ IsI32Literal(input)) =>
       /\ ~panicked
       /\ tokens = <<Token_new(INT(from_digits_pos(input, 0).val)), EofToken>>
  /\ (FreshRead /\ input # <<>> /\ Head(input) = "-" /\ IsI32Literal(Tail(input))) =>
       /\ ~panicked
       /\ tokens = << Tok("MINUS"),
                      Token_new(INT(from_digits_pos(Tail(input), 0).val)),
                      EofToken >>

\* the outcome of read() on a fresh Lexer over s
ReadOf(s) == read(s, new(s))

\* this state's read() ended as a read of rest would, with token t in front
ReadIsTokenThen(t, rest) ==
  /\ panicked = ReadOf(rest).panic
  /\ ~panicked => tokens = <<t>> \o ReadOf(rest).tokens

\* the last next_token call matched the character at tok_start
MatchedAt(c) ==
  /\ lastOp = "next_token"
  /\ tok_start >= 0 /\ tok_start < Len(input)
  /\ input[tok_start + 1] = c

\* the kinds of '=' / '!' alone and followed by '='
SingleKind(c) == IF c = "=" THEN Tok("ASSIGN") ELSE Tok("BANG")
DoubleKind(c) == IF c = "=" THEN Tok("EQ") ELSE Tok("NOTEQ")

\* C6: '=' or '!' followed by '=' yields one EQ / NOT_EQ consuming both
\* characters; followed by any other character it yields ASSIGN / BANG and
\* that character is tokenized on its own ("== !=" gives EQ, NOT_EQ, EOF and
\* "=+" gives ASSIGN, PLUS, EOF).
C6_TwoCharOperators ==
  /\ \A c \in {"=", "!"} :
       (MatchedAt(c) /\ tok_start + 1 < Len(input)) =>
         /\ ~panicked
         /\ IF input[tok_start + 2] = "="
            THEN /\ last = <<DoubleKind(c)>>
                 /\ position = tok_start + 2
                 /\ current_character = nth(input, tok_start + 2)
            ELSE /\ last = <<SingleKind(c)>>
                 /\ position = tok_start + 1
                 /\ current_character = input[tok_start + 2]
  /\ (FreshRead /\ Len(input) >= 2 /\ input[1] \in {"=", "!"}) =>
       IF input[2] = "="
       THEN ReadIsTokenThen(DoubleKind(input[1]), SubSeq(input, 3, Len(input)))
       ELSE ReadIsTokenThen(SingleKind(input[1]), Tail(input))
  /\ (FreshRead /\ input = DoubleTokens) =>
       ~panicked /\ tokens = <<Tok("EQ"), Tok("NOTEQ"), EofToken>>
  /\ (FreshRead /\ input = <<"=", "+">>) =>
       ~panicked /\ tokens = <<Tok("ASSIGN"), Tok("PLUS"), EofToken>>

\* C6 witness: the read of "=;!=": '=' before another character, then "!=".
C6_Witness ==
  /\ FreshRead /\ input = <<"=", ";", "!", "=">>
  /\ tokens = <<Tok("ASSIGN"), Tok("SEMICOLON"), Tok("NOTEQ"), EofToken>>

\* the kind the spec gives each single-character punctuation
PunctKind(c) ==
  CASE c = ";" -> "SEMICOLON" [] c = "(" -> "LPAREN" [] c = ")" -> "RPAREN"
    [] c = "{" -> "LBRACE" [] c = "}" -> "RBRACE" [] c = "," -> "COMMA"
    [] c = "+" -> "PLUS" [] c = "-" -> "MINUS" [] c = "*" -> "ASTERISK"
    [] c = "/" -> "FORWARDSLASH" [] c = "<" -> "LT" [] c = ">" -> "GT"

PunctOnly(s) ==
  \A k \in 1..Len(s) :
    s[k] \in {";", "(", ")", "{", "}", ",", "+", "-", "*", "/", "<", ">"}

\* C7: an input of single-character punctuation only gives one token per
\* character, of that character's kind, in input order, then EOF.
C7_PunctuationOnly ==
  (FreshRead /\ PunctOnly(input)) =>
    /\ ~panicked
    /\ Len(tokens) = Len(input) + 1
    /\ \A k \in 1..Len(input) : tokens[k] = Tok(PunctKind(input[k]))
    /\ tokens[Len(tokens)] = EofToken

\* C7 witness: a read of two different punctuation characters.
C7_Witness ==
  /\ FreshRead /\ PunctOnly(input) /\ Len(input) = 2 /\ input[1] # input[2]
  /\ ~panicked /\ Len(tokens) = 3

\* the keyword table of the spec: fn, let, true, false, if, else, return
KeywordKind(w) ==
  CASE w = <<"f","n">> -> Tok("FUNCTION")
    [] w = <<"l","e","t">> -> Tok("LET")
    [] w = <<"t","r","u","e">> -> Tok("TRUE")
    [] w = <<"f","a","l","s","e">> -> Tok("FALSE")
    [] w = <<"i","f">> -> Tok("IF")
    [] w = <<"e","l","s","e">> -> Tok("ELSE")
    [] w = <<"r","e","t","u","r","n">> -> Tok("RETURN")
    [] OTHER -> Token_new(IDENT(w))

\* s holds alphabetic characters and whitespace only, with a word in it
IsWordInput(s) ==
  /\ \A k \in 1..Len(s) : is_alphabetic(s[k]) \/ is_ascii_whitespace(s[k])
  /\ \E k \in 1..Len(s) : is_alphabetic(s[k])

\* the tokens of the words of s: every maximal alphabetic run, in order
RECURSIVE WordTokens(_, _)
WordTokens(s, word) ==
  IF s = <<>> THEN (IF word = <<>> THEN <<>> ELSE <<KeywordKind(word)>>)
  ELSE IF is_alphabetic(Head(s)) THEN WordTokens(Tail(s), Append(word, Head(s)))
  ELSE (IF word = <<>> THEN <<>> ELSE <<KeywordKind(word)>>)
         \o WordTokens(Tail(s), <<>>)

\* C8: for an input of alphabetic words separated by whitespace, each word
\* gives its keyword kind if it is exactly a keyword and IDENT carrying the
\* word otherwise, in input order, then EOF.
C8_KeywordsExact ==
  (FreshRead /\ IsWordInput(input)) =>
    /\ ~panicked
    /\ tokens = WordTokens(input, <<>>) \o <<EofToken>>

\* neither punctuation, '=' or '!', whitespace, alphabetic nor a digit
IsIllegalChar(c) ==
  /\ c \notin {";", "(", ")", "{", "}", ",", "+", "-", "*", "/", "<", ">", "=", "!"}
  /\ ~is_ascii_whitespace(c) /\ ~is_alphabetic(c) /\ ~is_digit(c)

\* C9: a character of no recognized class yields exactly one ILLEGAL, the
\* cursor advances by one, and the characters after it are tokenized as they
\* are on their own.
C9_IllegalContinues ==
  /\ ( /\ lastOp = "next_token"
       /\ tok_start >= 0 /\ tok_start < Len(input)
       /\ IsIllegalChar(input[tok_start + 1]) ) =>
       /\ ~panicked
       /\ last = <<Tok("ILLEGAL")>>
       /\ position = tok_start + 1
       /\ current_character = nth(input, tok_start + 1)
  /\ (FreshRead /\ input # <<>> /\ IsIllegalChar(Head(input))) =>
       ReadIsTokenThen(Tok("ILLEGAL"), Tail(input))

\* C10: once next_token has returned None, every later next_token returns
\* None and leaves position, read_position and current_character as they
\* are, and a later read returns EOF alone.
C10_ExhaustedTerminal ==
  [][ (exhausted > 0 /\ calls' = calls + 1) =>
        /\ ~panicked'
        /\ lastOp' = "next_token" =>
             /\ last' = <<>>
             /\ UNCHANGED <<position, read_position, current_character>>
        /\ lastOp' = "read" => tokens' = <<EofToken>> ]_vars

\* C10 witness: next_token returned None after tokens had been returned, and
\* a later read returned EOF alone.
C10_Witness ==
  /\ exhausted > 0 /\ calls > exhausted + 1
  /\ last = <<>> /\ tokens = <<EofToken>> /\ lastOp = "read"
  /\ position > 1

\* s with the character w put in after its k-th character
InsertAt(s, k, w) == SubSeq(s, 1, k) \o <<w>> \o SubSeq(s, k + 1, Len(s))

\* the k-th and (k+1)-th characters of s lie in two different tokens: they
\* are not two letters, not two digits, and not '=' or '!' before '='
TokenBoundary(s, k) ==
  /\ k >= 1 /\ k < Len(s)
  /\ ~(is_alphabetic(s[k]) /\ is_alphabetic(s[k + 1]))
  /\ ~(is_digit(s[k]) /\ is_digit(s[k + 1]))
  /\ ~(s[k] \in {"=", "!"} /\ s[k + 1] = "=")

\* the whitespace characters the spec names
SpecWhitespace == {" ", "\t", "\n", "\r"}

\* C11: an input of whitespace only (the empty input too) reads as EOF
\* alone, and whitespace put in between two tokens of an input does not
\* change the token sequence read.
C11_WhitespaceNeverTokenized ==
  /\ (FreshRead /\ \A k \in 1..Len(input) : input[k] \in SpecWhitespace) =>
       ~panicked /\ tokens = <<EofToken>>
  /\ FreshRead =>
       \A k \in 1..Len(input) : \A w \in SpecWhitespace :
         TokenBoundary(input, k) =>
           /\ ReadOf(InsertAt(input, k, w)).panic = panicked
           /\ ~panicked => ReadOf(InsertAt(input, k, w)).tokens = tokens

\* C12: when the line read is the command q, in either case, with its line
\* terminator, run() returns; for every other line it builds a Lexer over
\* the line, prints the result of read() and reads the next line.
C12_QuitCommandEnds ==
  lastOp \in {"run_print", "run_return"} =>
    /\ line \in {<<"q", "\n">>, <<"Q", "\n">>} => lastOp = "run_return"
    /\ to_lowercase(line) \notin {<<"q", "\n">>, <<"q", "\r", "\n">>, <<"q">>} =>
         lastOp = "run_print" /\ input = to_lowercase(line)

\* the first index (0-based) at or after i whose character is not a letter
\* (not a digit), or the length of s
RECURSIVE LetterRunEnd(_, _)
LetterRunEnd(s, i) ==
  IF i < Len(s) /\ is_alphabetic(s[i + 1]) THEN LetterRunEnd(s, i + 1) ELSE i
RECURSIVE DigitRunEnd(_, _)
DigitRunEnd(s, i) ==
  IF i < Len(s) /\ is_digit(s[i + 1]) THEN DigitRunEnd(s, i + 1) ELSE i

\* the last next_token call matched a letter / a digit at tok_start
MatchedLetter ==
  /\ lastOp = "next_token" /\ tok_start >= 0 /\ tok_start < Len(input)
  /\ is_alphabetic(input[tok_start + 1])
MatchedDigit ==
  /\ lastOp = "next_token" /\ tok_start >= 0 /\ tok_start < Len(input)
  /\ is_digit(input[tok_start + 1])

\* C13: after next_token returns an identifier, keyword or integer token the
\* cursor rests on the first character after the run of letters / digits,
\* so that character is not dropped ("a;" gives IDENT("a"), SEMICOLON and
\* "5)" gives INT(5), RPAREN).
C13_CursorRestsAfterRun ==
  /\ (MatchedLetter /\ ~panicked) =>
       /\ position = LetterRunEnd(input, tok_start)
       /\ current_character = nth(input, position)
  /\ (MatchedDigit /\ ~panicked) =>
       /\ position = DigitRunEnd(input, tok_start)
       /\ current_character = nth(input, position)
  /\ (FreshRead /\ input = <<"a", ";">>) =>
       tokens = <<Token_new(IDENT(<<"a">>)), Tok("SEMICOLON"), EofToken>>
  /\ (FreshRead /\ input = <<"5", ")">>) =>
       tokens = <<Token_new(INT(5)), Tok("RPAREN"), EofToken>>

\* the Lexer with the character at offset k current
CursorAt(s, k) == Lexer(k, k + 1, nth(s, k))

\* C14: in every state current_character is the character of the buffer at
\* offset position (offsets count characters), and None exactly when
\* position is at or past the end; construction leaves the cursor on offset
\* 0 and every read_char takes it from offset k to offset k + 1, so after k
\* read_char calls, k below the length, the k-th character is current.
C14_CurrentCharacterAtPosition ==
  /\ current_character = nth(input, position)
  /\ current_character = None <=> position >= Len(input)
  /\ calls = 0 => position = 0
  /\ new(input) = CursorAt(input, 0)
  /\ \A k \in 0..(Len(input) - 1) :
       /\ CursorAt(input, k).current_character = input[k + 1]
       /\ read_char(input, CursorAt(input, k)) = CursorAt(input, k + 1)

\* C14 witness: read_char has moved the cursor to the third character of an
\* input holding a two-byte character.
C14_Witness ==
  /\ lastOp = "read_char" /\ calls = 2 /\ position = 2 /\ Len(input) > 2
  /\ current_character = input[3]
  /\ \E k \in 1..Len(input) : len_utf8(input[k]) = 2

\* C15: read_position = position + 1 in every state after construction,
\* also with the cursor beyond the end of the buffer.
C15_ReadPositionAhead == read_position = position + 1

\* C15 witness: calls have taken the cursor beyond the end of the buffer.
C15_Witness ==
  /\ calls >= 2 /\ position > Len(input) /\ Len(input) > 0
  /\ read_position = position + 1

\* C16: position and read_position never decrease, whatever is called, and
\* peak_char changes neither of them nor current_character.
C16_CursorMovesForward ==
  [][ /\ position' >= position
      /\ read_position' >= read_position
      /\ (lastOp' = "peak_char" /\ calls' = calls + 1) =>
           UNCHANGED <<position, read_position, current_character>> ]_vars

\* C16 witness: peak_char has returned a character after the cursor had
\* moved past the end of the input and stayed where it was.
C16_Witness ==
  /\ lastOp = "peak_char" /\ calls = 3 /\ position >= 2
  /\ peeked # None

\* the maximal run of alphabetic characters of the input that starts where
\* the last next_token call dispatched
LetterRun == SubSeq(input, tok_start + 1, LetterRunEnd(input, tok_start))

\* C17: when next_token dispatches on a letter, the text handed to the
\* keyword lookup, and so the payload of an IDENT token, is the maximal run
\* of alphabetic characters starting at the dispatch position.
C17_IdentifierIsMaximalRun ==
  (MatchedLetter /\ ~panicked) => last = <<KeywordKind(LetterRun)>>

\* the least number of characters of the input a token stands for
TokenChars(t) ==
  LET k == t.t_type.kind
  IN  CASE k = "IDENT" -> Len(t.t_type.name)
        [] k = "INT" -> IF t.t_type.value < 10 THEN 1
                        ELSE IF t.t_type.value < 100 THEN 2 ELSE 3
        [] k \in {"EQ", "NOTEQ", "FUNCTION", "IF"} -> 2
        [] k = "LET" -> 3
        [] k \in {"TRUE", "ELSE"} -> 4
        [] k = "FALSE" -> 5
        [] k = "RETURN" -> 6
        [] OTHER -> 1

\* C18: a next_token call that returns a token starts with the cursor
\* inside the buffer and leaves position larger by at least the number of
\* characters of the token (at least 1); read on a fresh Lexer returns at
\* most one token per character of the buffer plus EOF.
C18_Progress ==
  /\ [](FreshRead /\ ~panicked => Len(tokens) <= Len(input) + 1)
  /\ [][ (lastOp' = "next_token" /\ calls' = calls + 1 /\ ~panicked'
            /\ last' # <<>>) =>
           /\ position < Len(input)
           /\ TokenChars(last'[1]) >= 1
           /\ position' >= position + TokenChars(last'[1]) ]_vars

\* C18 witness: the second next_token call has returned NOTEQ after skipped
\* whitespace, with the cursor past both of its characters.
C18_Witness ==
  /\ lastOp = "next_token" /\ calls = 2 /\ ~panicked
  /\ last = <<Tok("NOTEQ")>>
  /\ tok_start >= 2 /\ input[tok_start] = " "
  /\ position = tok_start + 2

====
